---- MODULE Spec2Model ----
(***************************************************************************)
(* Speaker diarization + transcription orchestration.                      *)
(*                                                                         *)
(*   Spec       the Streamlit UI (app/st-app.py): one action per script    *)
(*              rerun, triggered by a widget event                         *)
(*   SpecPA     process_audio (app/st-app.py) as a function of what the    *)
(*              diarization pipeline and the transcription model return    *)
(*   SpecBatch  the batch scripts programs/main.py and programs/diarize.py *)
(*                                                                         *)
(* Python's None is <<>> and a set value v is <<v>>, so that None and the  *)
(* empty segment list [] stay distinct.  A text is a sequence of           *)
(* characters.  Times are integers (a unit of time, not seconds).          *)
(***************************************************************************)
EXTENDS Integers, Sequences, FiniteSets, TLC

VARIABLES hf_token, models, loaderInvoked, uploaded_file, session, cache,
          disk, page, last, call, script

vars == <<hf_token, models, loaderInvoked, uploaded_file, session, cache,
          disk, page, last, call, script>>

uiVars == <<models, uploaded_file, session, cache, disk, page, last>>

----------------------------------------------------------------------------
(* Bounds *)

\* Longest diarization handed to process_audio in SpecPA and SpecBatch.
MaxTurns == 2
\* Longest text transcribe() returns.
MaxTextLen == 2
\* Number of names tempfile.NamedTemporaryFile can pick from.
NumPaths == 2
\* Longest diarization of an uploaded file in the UI.
UIMaxTurns == 2

----------------------------------------------------------------------------
(* Values *)

None == <<>>
Some(v) == <<v>>
IsNone(x) == x = <<>>
Val(x) == x[1]

SampleRate == 16000

Chars == {" ", "a"}

RECURSIVE SeqsUpTo(_, _)
SeqsUpTo(S, n) ==
    IF n = 0 THEN {<<>>}
    ELSE LET shorter == SeqsUpTo(S, n - 1)
         IN  shorter \cup {Append(s, x) : s \in {t \in shorter : Len(t) = n - 1}, x \in S}

SeqsOfLen(S, n) == {s \in SeqsUpTo(S, n) : Len(s) = n}

\* What transcribe() may put in result["text"].
RawTexts == SeqsUpTo(Chars, MaxTextLen)

\* A diarization turn: turn.start, turn.end and the speaker label.
Turn(a, b, s) == [start |-> a, end |-> b, speaker |-> s]
Turns == {Turn(0, 1, "SPEAKER_00"), Turn(1, 2, "SPEAKER_01")}

TmpPaths == 1..NumPaths

\* The uploaded files: a name and a content.
Files == {[name |-> "a.wav", content |-> 1],
          [name |-> "b.wav", content |-> 2]}

\* librosa.load(audio_path, sr=16000): the waveform is decided by the
\* file's content.
Waveform(content) == <<content, content>>

\* y.tolist(): the numpy array as a list of samples.
ToList(y) == [i \in 1..Len(y) |-> y[i]]

----------------------------------------------------------------------------
(* str.strip() *)

IsSpace(c) == c = " "

RECURSIVE LStrip(_)
LStrip(s) == IF s = <<>> THEN s
             ELSE IF IsSpace(Head(s)) THEN LStrip(Tail(s)) ELSE s

RECURSIVE RStrip(_)
RStrip(s) == IF s = <<>> THEN s
             ELSE IF IsSpace(s[Len(s)]) THEN RStrip(SubSeq(s, 1, Len(s) - 1)) ELSE s

Strip(s) == RStrip(LStrip(s))

----------------------------------------------------------------------------
(* process_audio *)

\* A diarization of n turns, one per time unit, the speakers alternating.
RECURSIVE Track(_)
Track(n) == IF n = 0 THEN <<>>
            ELSE Append(Track(n - 1),
                        Turn(n - 1, n, IF n % 2 = 1 THEN "SPEAKER_00" ELSE "SPEAKER_01"))

\* What the models give for an uploaded file in the UI: no turn at all or
\* UIMaxTurns turns, and silence or speech for every turn.
UITurnSeqs == {Track(0), Track(UIMaxTurns)}
UITexts == {<<" ">>, <<"a", " ">>}
UITextSeqs(n) == {[i \in 1..n |-> t] : t \in UITexts}

\* Where a call raises: nowhere, in the diarization pipeline, in
\* librosa.load, or in transcribe() of turn number `turn`.
NoFault == [stage |-> "none", turn |-> 0]
Faults(n) == {NoFault, [stage |-> "diarize", turn |-> 0], [stage |-> "load", turn |-> 0]}
             \cup {[stage |-> "transcribe", turn |-> k] : k \in 1..n}

KeepSegmentAlways(transcribed_text) == TRUE

\* `if transcribed_text:`
KeepSegment(transcribed_text) == transcribed_text # <<>>

MakeSegment(turn, transcribed_text) ==
    [start |-> turn.start, end |-> turn.end, speaker |-> turn.speaker,
     text |-> transcribed_text]

PrependSegment(segments, seg) == <<seg>> \o segments

\* segments.append(...)
AddSegment(segments, seg) == Append(segments, seg)

\* The loop over diarization.itertracks(yield_label=True), from turn i on.
RECURSIVE TranscribeLoop(_, _, _, _, _)
TranscribeLoop(turns, texts, fault, i, segments) ==
    IF i > Len(turns)
    THEN [ok |-> TRUE, segments |-> segments, calls |-> Len(turns)]
    ELSE IF fault.stage = "transcribe" /\ fault.turn = i
    THEN [ok |-> FALSE, segments |-> segments, calls |-> i]
    ELSE LET transcribed_text == Strip(texts[i])
         IN  TranscribeLoop(turns, texts, fault, i + 1,
                 IF KeepSegment(transcribed_text)
                 THEN AddSegment(segments, MakeSegment(turns[i], transcribed_text))
                 ELSE segments)

\* The body of process_audio on a file of the given content, the pipeline
\* yielding `turns`, transcribe() returning texts[i] for turn i, and `fault`
\* saying where an exception is raised.  ok = FALSE: the call raised;
\* segments is then the local list at that point and calls the number of
\* transcribe() calls made.
ProcessAudio(content, turns, texts, fault) ==
    IF fault.stage \in {"diarize", "load"}
    THEN [ok |-> FALSE, segments |-> <<>>, audio_data |-> <<>>,
          sample_rate |-> SampleRate, calls |-> 0]
    ELSE LET r == TranscribeLoop(turns, texts, fault, 1, <<>>)
         IN  [ok |-> r.ok, segments |-> r.segments,
              audio_data |-> ToList(Waveform(content)),
              sample_rate |-> SampleRate, calls |-> r.calls]

\* The value process_audio returns (and st.cache_data memoises).
Returned(r) == [segments |-> r.segments, audio_data |-> r.audio_data,
                sample_rate |-> r.sample_rate]

----------------------------------------------------------------------------
(* Session state *)

SessionKeys == {"processed_segments", "processed_audio_data",
                "processed_sample_rate", "processed_file_name"}

EmptySession == [k \in {} |-> None]

InitSessionStateReset(s) == [k \in SessionKeys |-> None]

\* `if "<key>" not in st.session_state: st.session_state.<key> = None`
InitSessionState(s) ==
    [k \in SessionKeys |-> IF k \in DOMAIN s THEN s[k] ELSE None]

ClearSegmentsOnly(s) == [s EXCEPT !.processed_segments = None]

\* The Clear Results branch.
ClearResults(s) ==
    [s EXCEPT !.processed_segments = None,
              !.processed_audio_data = None,
              !.processed_sample_rate = None,
              !.processed_file_name = None]

StoreResultNoRate(s, ret, name) ==
    [s EXCEPT !.processed_segments = Some(ret.segments),
              !.processed_audio_data = Some(ret.audio_data),
              !.processed_file_name = Some(name)]

\* "Store in session state"
StoreResult(s, ret, name) ==
    [s EXCEPT !.processed_segments = Some(ret.segments),
              !.processed_audio_data = Some(ret.audio_data),
              !.processed_sample_rate = Some(ret.sample_rate),
              !.processed_file_name = Some(name)]

StorePartialOnFailure(s, r, name) == StoreResult(s, Returned(r), name)

\* try: process_audio(...) and store / except Exception: st.error(...)
SessionAfterProcess(s, r, name) ==
    IF r.ok THEN StoreResult(s, Returned(r), name) ELSE s

----------------------------------------------------------------------------
(* The page a script run leaves in the browser *)

\* Nothing below the sidebar: the run stopped in load_models.
StoppedPage == [processOffered |-> FALSE, clearOffered |-> FALSE,
                displayed |-> FALSE, error |-> TRUE]

\* A run that reaches the end of main() with no button pressed.
RenderedPage(file, s) ==
    [processOffered |-> ~IsNone(file),
     clearOffered |-> ~IsNone(file) /\ ~IsNone(s.processed_segments),
     displayed |-> ~IsNone(file) /\ ~IsNone(s.processed_segments),
     error |-> FALSE]

\* What the last script run did (history, not program state): the event,
\* whether Process Audio succeeded, whether the temporary file it made is
\* still on disk, whether process_audio was answered from the cache, where
\* it raised, how many transcribe() calls it made out of how many turns,
\* and what it returned.
NoRun == [op |-> "none", ok |-> TRUE, leaked |-> FALSE, hit |-> FALSE,
          fault |-> NoFault, calls |-> 0, nturns |-> 0, returned |-> None]


----------------------------------------------------------------------------
(* The UI: one action per script run of main() *)

\* load_models() under st.cache_resource: the cached models if a run
\* loaded them before; st.error and st.stop() without a token; else the
\* loaders, which return (loadOk) or raise into main's `except`.
LoadModels(loadOk) ==
    IF models
    THEN [proceeds |-> TRUE, models |-> TRUE, invoked |-> loaderInvoked]
    ELSE IF ~hf_token
    THEN [proceeds |-> FALSE, models |-> FALSE, invoked |-> loaderInvoked]
    ELSE [proceeds |-> loadOk, models |-> loadOk, invoked |-> TRUE]

\* A run of main() with no button pressed, the uploader holding `file`.
ScriptRun(op, file, loadOk) ==
    LET lm == LoadModels(loadOk)
    IN  /\ models' = lm.models
        /\ loaderInvoked' = lm.invoked
        /\ uploaded_file' = file
        /\ session' = InitSessionState(session)
        /\ page' = IF lm.proceeds THEN RenderedPage(file, session') ELSE StoppedPage
        /\ last' = [NoRun EXCEPT !.op = op]
        /\ UNCHANGED <<hf_token, cache, disk, call, script>>

\* The user picks a file in the empty uploader.
UploadFile ==
    /\ IsNone(uploaded_file)
    /\ \E f \in Files, loadOk \in BOOLEAN : ScriptRun("upload", Some(f), loadOk)

\* The user puts another file in the uploader.
ReplaceFile ==
    /\ ~IsNone(uploaded_file)
    /\ \E f \in Files \ {Val(uploaded_file)}, loadOk \in BOOLEAN :
           ScriptRun("replace", Some(f), loadOk)

\* The user removes the file from the uploader.
RemoveFile ==
    /\ ~IsNone(uploaded_file)
    /\ \E loadOk \in BOOLEAN : ScriptRun("remove", None, loadOk)

\* A rerun with nothing changed (a page reload, the download button).
Rerun ==
    \E loadOk \in BOOLEAN : ScriptRun("rerun", uploaded_file, loadOk)

\* The user presses Clear Results: the fields are reset and st.rerun()
\* runs the script again.
PressClear ==
    /\ page.clearOffered
    /\ LET lm == LoadModels(TRUE)
           s0 == InitSessionState(session)
           pressed == /\ lm.proceeds
                      /\ ~IsNone(uploaded_file)
                      /\ ~IsNone(s0.processed_segments)
       IN  /\ models' = lm.models
           /\ loaderInvoked' = lm.invoked
           /\ session' = IF pressed THEN InitSessionState(ClearResults(s0)) ELSE s0
           /\ page' = IF lm.proceeds THEN RenderedPage(uploaded_file, session')
                      ELSE StoppedPage
           /\ last' = [NoRun EXCEPT !.op = IF pressed THEN "clear" ELSE "rerun"]
    /\ UNCHANGED <<hf_token, uploaded_file, cache, disk, call, script>>

\* os.path.exists(tmp_path) and os.unlink(tmp_path)
Unlink(d, p) == d \ {p}

\* process_audio under st.cache_data: the key is audio_path alone (the
\* underscore arguments are not hashed), so a path with an entry returns
\* the entry and the body does not run.
CacheHit(p) ==
    [hit |-> TRUE, ok |-> TRUE, segments |-> Val(cache[p]).segments,
     audio_data |-> Val(cache[p]).audio_data,
     sample_rate |-> Val(cache[p]).sample_rate, calls |-> 0]

\* A path with no entry: the body runs; a raising call stores nothing.
CacheMiss(content, turns, texts, fault) ==
    LET r == ProcessAudio(content, turns, texts, fault)
    IN  [hit |-> FALSE, ok |-> r.ok, segments |-> r.segments,
         audio_data |-> r.audio_data, sample_rate |-> r.sample_rate,
         calls |-> r.calls]

\* Writing the upload into the temporary file raises: tmp_path is not bound
\* and the try/finally is not entered; the exception ends the script run.
WriteFails(p, s0) ==
    /\ disk' = disk \cup {p}
    /\ cache' = cache
    /\ session' = s0
    /\ page' = [processOffered |-> TRUE,
                clearOffered |-> ~IsNone(s0.processed_segments),
                displayed |-> FALSE, error |-> TRUE]
    /\ last' = [NoRun EXCEPT !.op = "process", !.ok = FALSE,
                             !.leaked = p \in disk',
                             !.fault = [stage |-> "write", turn |-> 0]]

\* try: process_audio, store / except: st.error / finally: unlink; then
\* the display section.
TryProcess(p, s0, r, fault, nturns) ==
    /\ disk' = Unlink(disk \cup {p}, p)
    /\ cache' = IF ~r.hit /\ r.ok THEN [cache EXCEPT ![p] = Some(Returned(r))]
                ELSE cache
    /\ session' = SessionAfterProcess(s0, r, Val(uploaded_file).name)
    /\ page' = [processOffered |-> TRUE,
                clearOffered |-> ~IsNone(s0.processed_segments),
                displayed |-> ~IsNone(session'.processed_segments),
                error |-> ~r.ok]
    /\ last' = [op |-> "process", ok |-> r.ok, leaked |-> p \in disk', hit |-> r.hit,
                fault |-> IF r.ok THEN NoFault ELSE fault,
                calls |-> r.calls, nturns |-> nturns,
                returned |-> IF r.ok THEN Some(Returned(r)) ELSE None]

\* The user presses Process Audio.  NamedTemporaryFile(delete=False) makes
\* a file of a name not on disk; writing the upload into it may raise
\* (writeOk = FALSE).
PressProcess ==
    /\ page.processOffered
    /\ ~IsNone(uploaded_file)
    /\ LoadModels(TRUE).proceeds
    /\ models' = LoadModels(TRUE).models
    /\ loaderInvoked' = LoadModels(TRUE).invoked
    /\ \E p \in TmpPaths \ disk, writeOk \in BOOLEAN :
         LET s0 == InitSessionState(session)
         IN  IF ~writeOk THEN WriteFails(p, s0)
             ELSE IF ~IsNone(cache[p]) THEN TryProcess(p, s0, CacheHit(p), NoFault, 0)
             ELSE \E turns \in UITurnSeqs :
                  \E texts \in UITextSeqs(Len(turns)), fault \in Faults(Len(turns)) :
                      TryProcess(p, s0,
                                 CacheMiss(Val(uploaded_file).content, turns, texts, fault),
                                 fault,
                                 IF fault.stage = "diarize" THEN 0 ELSE Len(turns))
    /\ UNCHANGED <<hf_token, uploaded_file, call, script>>

NoCall == [turns |-> <<>>, texts |-> <<>>, state |-> "unused", ret |-> None]
NoScript == [entry |-> "none", pc |-> "unused", pipeline |-> "unset",
             turns |-> <<>>, i |-> 0, lines |-> <<>>, rttm |-> None]

\* A new browser session on a new server process: the first lines of main()
\* have put the four keys in st.session_state.
Init ==
    /\ hf_token \in BOOLEAN
    /\ models = FALSE
    /\ loaderInvoked = FALSE
    /\ uploaded_file = None
    /\ session = InitSessionState(EmptySession)
    /\ cache = [p \in TmpPaths |-> None]
    /\ disk = {}
    /\ page = StoppedPage
    /\ last = NoRun
    /\ call = NoCall
    /\ script = NoScript

Next ==
    \/ UploadFile
    \/ ReplaceFile
    \/ RemoveFile
    \/ Rerun
    \/ PressClear
    \/ PressProcess

Spec == Init /\ [][Next]_vars

----------------------------------------------------------------------------
(* process_audio alone: Init draws what the models return, the actions     *)
(* run the call                                                            *)

PAInit ==
    /\ hf_token = TRUE
    /\ models = TRUE
    /\ loaderInvoked = TRUE
    /\ uploaded_file = None
    /\ session = InitSessionState(EmptySession)
    /\ cache = [p \in TmpPaths |-> None]
    /\ disk = {}
    /\ page = StoppedPage
    /\ last = NoRun
    /\ script = NoScript
    /\ \E turns \in SeqsUpTo(Turns, MaxTurns) :
       \E texts \in SeqsOfLen(RawTexts, Len(turns)) :
           call = [turns |-> turns, texts |-> texts, state |-> "pending", ret |-> None]

\* The call runs to its return statement.
PAReturn ==
    /\ call.state = "pending"
    /\ LET r == ProcessAudio(1, call.turns, call.texts, NoFault)
       IN  call' = [call EXCEPT !.state = "returned", !.ret = Some(Returned(r))]
    /\ UNCHANGED <<hf_token, loaderInvoked, script, uiVars>>

\* The call raises: nothing is returned.
PARaise ==
    /\ call.state = "pending"
    /\ \E fault \in Faults(Len(call.turns)) \ {NoFault} :
         LET r == ProcessAudio(1, call.turns, call.texts, fault)
         IN  /\ ~r.ok
             /\ call' = [call EXCEPT !.state = "raised"]
    /\ UNCHANGED <<hf_token, loaderInvoked, script, uiVars>>

PANext == PAReturn \/ PARaise

SpecPA == PAInit /\ [][PANext]_vars

----------------------------------------------------------------------------
(* The batch scripts programs/main.py and programs/diarize.py *)

BatchInit ==
    /\ hf_token \in BOOLEAN
    /\ models = FALSE
    /\ loaderInvoked = FALSE
    /\ uploaded_file = None
    /\ session = InitSessionState(EmptySession)
    /\ cache = [p \in TmpPaths |-> None]
    /\ disk = {}
    /\ page = StoppedPage
    /\ last = NoRun
    /\ call = NoCall
    /\ \E e \in {"main.py", "diarize.py"} :
           script = [NoScript EXCEPT !.entry = e, !.pc = "start"]

\* hf_token = os.getenv("HF_TOKEN") goes to Pipeline.from_pretrained
\* unchecked.  The loader gives a pipeline, gives None (a model it may not
\* download) or raises.
BatchLoadPipeline ==
    /\ script.pc = "start"
    /\ loaderInvoked' = TRUE
    /\ \E out \in {"ok", "none", "raise"} :
           script' = [script EXCEPT !.pipeline = IF out = "raise" THEN "unset" ELSE out,
                                    !.pc = IF out = "raise" THEN "crashed" ELSE "loaded"]
    /\ UNCHANGED <<hf_token, call, uiVars>>

\* diarization = pipeline(path): calling None raises TypeError; the
\* pipeline yields its turns or raises.  main.py goes on to load the
\* transcription model and the audio and to open the output file.
BatchDiarize ==
    /\ script.pc = "loaded"
    /\ IF script.pipeline = "none"
       THEN script' = [script EXCEPT !.pc = "crashed"]
       ELSE \E turns \in SeqsUpTo(Turns, MaxTurns), raises \in BOOLEAN :
              script' = IF raises THEN [script EXCEPT !.pc = "crashed"]
                        ELSE [script EXCEPT !.turns = turns, !.i = 1,
                                            !.pc = IF script.entry = "main.py"
                                                   THEN "loop" ELSE "diarized"]
    /\ UNCHANGED <<hf_token, loaderInvoked, call, uiVars>>

\* f"[{start_time:.2f}s --> {end_time:.2f}s] {speaker}: {result['text'].strip()}\n"
OutputString(turn, text) ==
    [start |-> turn.start, end |-> turn.end, speaker |-> turn.speaker,
     text |-> Strip(text)]

\* main.py: one pass of the loop over the turns: transcribe the slice and
\* write its line to the output file.
MainTranscribeTurn ==
    /\ script.entry = "main.py"
    /\ script.pc = "loop"
    /\ script.i <= Len(script.turns)
    /\ \E text \in RawTexts, raises \in BOOLEAN :
           script' = IF raises THEN [script EXCEPT !.pc = "crashed"]
                     ELSE [script EXCEPT
                             !.lines = Append(@, OutputString(script.turns[script.i], text)),
                             !.i = @ + 1]
    /\ UNCHANGED <<hf_token, loaderInvoked, call, uiVars>>

\* main.py: the loop is over, the output file is closed.
MainFinish ==
    /\ script.entry = "main.py"
    /\ script.pc = "loop"
    /\ script.i > Len(script.turns)
    /\ script' = [script EXCEPT !.pc = "done"]
    /\ UNCHANGED <<hf_token, loaderInvoked, call, uiVars>>

\* diarize.py: print the turns and diarization.write_rttm(rttm).
DiarizeWriteRttm ==
    /\ script.entry = "diarize.py"
    /\ script.pc = "diarized"
    /\ script' = [script EXCEPT !.rttm = Some(script.turns), !.pc = "done"]
    /\ UNCHANGED <<hf_token, loaderInvoked, call, uiVars>>

BatchNext ==
    \/ BatchLoadPipeline
    \/ BatchDiarize
    \/ MainTranscribeTurn
    \/ MainFinish
    \/ DiarizeWriteRttm

SpecBatch == BatchInit /\ [][BatchNext]_vars

----------------------------------------------------------------------------
(* Properties *)

AllNone(s) == \A k \in SessionKeys : IsNone(s[k])
AllSet(s) == \A k \in SessionKeys : ~IsNone(s[k])

\* The turns whose transcription is not empty once stripped.
KeptTurns(texts) == {i \in 1..Len(texts) : Strip(texts[i]) # <<>>}

\* C1: the list process_audio returns has no segment whose stripped text
\* is empty, and a turn is in it if and only if its stripped transcription
\* is not empty: the list has one segment per such turn, in their order,
\* with that turn's stripped text.
C1_NoEmptyTextSegments ==
    call.state = "returned" =>
        LET segs == Val(call.ret).segments
            kept == KeptTurns(call.texts)
        IN  /\ \A j \in 1..Len(segs) : Strip(segs[j].text) # <<>>
            /\ Len(segs) = Cardinality(kept)
            /\ \A i \in kept :
                   LET j == Cardinality({k \in kept : k <= i})
                   IN  /\ j \in 1..Len(segs)
                       /\ segs[j].text = Strip(call.texts[i])
                       /\ segs[j].start = call.turns[i].start
                       /\ segs[j].end = call.turns[i].end

\* A call returned, having dropped one turn and kept another.
C1_Witness ==
    /\ call.state = "returned"
    /\ Len(call.turns) = 2
    /\ Len(Val(call.ret).segments) = 1

\* C2: right after Clear Results the four session fields are None, and the
\* rerun it starts displays no result and offers no Clear button.
C2_ClearResetsSession ==
    last.op = "clear" =>
        /\ IsNone(session.processed_segments)
        /\ IsNone(session.processed_audio_data)
        /\ IsNone(session.processed_sample_rate)
        /\ IsNone(session.processed_file_name)
        /\ ~page.displayed
        /\ ~page.clearOffered

\* Results were cleared after a successful run and a failed write.
C2_Witness ==
    /\ last.op = "clear"
    /\ \E p \in TmpPaths : ~IsNone(cache[p])
    /\ disk # {}

\* C3: a Process Audio run in which diarization, audio loading or the
\* transcription of a turn raises leaves the four session fields as they
\* were, shows an error, and makes no transcribe() call after the raising
\* one (none at all when diarization or loading raised).
C3_FailureAbortsRun ==
    [][(/\ last'.op = "process"
        /\ ~last'.ok
        /\ last'.fault.stage \in {"diarize", "load", "transcribe"})
       => /\ session' = session
          /\ page'.error
          /\ last'.calls = last'.fault.turn
          /\ last'.calls <= last'.nturns]_vars

\* The transcription of the first of several turns raised while an earlier
\* result was in the session.
C3_Witness ==
    /\ last.op = "process"
    /\ ~last.ok
    /\ last.fault.stage = "transcribe"
    /\ last.fault.turn < last.nturns
    /\ AllSet(session)

\* C4: after a Process Audio step the temporary file made for it is gone.
C4_TempFileRemoved ==
    last.op = "process" => ~last.leaked

\* C5: without HF_TOKEN the pretrained pipeline loader is never invoked
\* and nothing is diarized or transcribed.
C5_FailFastWithoutToken ==
    ~hf_token =>
        /\ ~loaderInvoked
        /\ script.pc \in {"start", "crashed"}
        /\ script.lines = <<>>

\* C6: the text file main.py writes has no line for a turn whose stripped
\* transcription is empty.
C6_NoEmptyTextLine ==
    \A i \in 1..Len(script.lines) : script.lines[i].text # <<>>

\* C7: the four session fields change only in a Clear Results step or in
\* a Process Audio step that succeeds; uploading, replacing or removing
\* the file and plain reruns leave them as they are.
C7_SessionChangesOnlyByClearOrRun ==
    [][/\ session' # session =>
            \/ last'.op = "clear"
            \/ last'.op = "process" /\ last'.ok
       /\ last'.op \in {"upload", "replace", "remove", "rerun"} => session' = session]_vars

\* The uploaded file was replaced while a result was in the session.
C7_Witness ==
    /\ last.op = "replace"
    /\ AllSet(session)

\* C8: the returned segments are a subsequence of the diarization turns,
\* in their order, each with its turn's start, end and speaker; when the
\* turns are ordered by start time so are the segments.
C8_SegmentsFollowTurns ==
    call.state = "returned" =>
        LET segs == Val(call.ret).segments
            turns == call.turns
        IN  /\ Len(segs) <= Len(turns)
            /\ \E f \in [1..Len(segs) -> 1..Len(turns)] :
                 /\ \A j \in 1..Len(segs) : \A k \in 1..Len(segs) : j < k => f[j] < f[k]
                 /\ \A j \in 1..Len(segs) :
                        /\ segs[j].start = turns[f[j]].start
                        /\ segs[j].end = turns[f[j]].end
                        /\ segs[j].speaker = turns[f[j]].speaker
            /\ (\A i \in 1..Len(turns) - 1 : turns[i].start <= turns[i + 1].start)
                   => \A j \in 1..Len(segs) - 1 : segs[j].start <= segs[j + 1].start

\* A call returned two segments for two different turns.
C8_Witness ==
    /\ call.state = "returned"
    /\ Len(Val(call.ret).segments) = 2
    /\ call.turns[1] # call.turns[2]

\* C9: after a successful Process Audio step the stored waveform is the
\* one of the file uploaded in that step, stored with that file's name
\* (process_audio returns the segments and the waveform of one file
\* together, so the waveform tells which file the segments are of).
C9_ResultIsOfUploadedFile ==
    (last.op = "process" /\ last.ok) =>
        /\ session.processed_audio_data
               = Some(ToList(Waveform(Val(uploaded_file).content)))
        /\ session.processed_file_name = Some(Val(uploaded_file).name)

\* C10: the four session fields are all None or all set; they become set
\* only together, by one successful Process Audio run storing what that
\* run's process_audio call returned and the name of its file; a result
\* is displayed and Clear Results offered only when they are set.
C10_AllOrNothing ==
    /\ [](/\ AllNone(session) \/ AllSet(session)
          /\ page.displayed => AllSet(session)
          /\ page.clearOffered => AllSet(session))
    /\ [][(session' # session /\ ~AllNone(session')) =>
            /\ last'.op = "process"
            /\ last'.ok
            /\ session'.processed_segments = Some(Val(last'.returned).segments)
            /\ session'.processed_audio_data = Some(Val(last'.returned).audio_data)
            /\ session'.processed_sample_rate = Some(Val(last'.returned).sample_rate)
            /\ session'.processed_file_name = Some(Val(uploaded_file').name)]_vars

\* An empty segment list is stored and displayed, and Clear is offered.
C10_Witness ==
    /\ AllSet(session)
    /\ Val(session.processed_segments) = <<>>
    /\ page.displayed
    /\ page.clearOffered

====
